---- MODULE Spec2Model ----
(***************************************************************************)
(* Close-approach query filters (filters.py): the attribute predicates,    *)
(* create_filters, limit, and the query pipeline they are used in.         *)
(***************************************************************************)
EXTENDS Integers, Sequences, FiniteSets, TLC

\* ------------------------------------------------------------------ bounds
\* Calendar dates are the ordinals 1..MaxDay.
MaxDay == 2
\* Numeric thresholds are the numbers 0..MaxNum; the distances, velocities
\* and diameters of records are 0..MaxNum + 1 (some lie above every threshold).
MaxNum == 1
\* A query of the pipeline specifications sets at most MaxCriteria criteria.
MaxCriteria == 1
\* The stored dataset of the limit specification has at most MaxLen records.
MaxLen == 3
\* The limit argument n ranges over None and -1..MaxLimit.
MaxLimit == 2

\* ----------------------------------------------------------- Python values
\* A Python value is a record tagged with its type; v is its payload.
None == [t |-> "NoneType", v |-> 0]
PyBool(b) == [t |-> "bool", v |-> IF b THEN 1 ELSE 0]
PyFloat(k) == [t |-> "float", v |-> k]
PyInt(k) == [t |-> "int", v |-> k]
PyDate(d) == [t |-> "date", v |-> d]

\* bool(x): None, False and numeric zero are falsy; a date and any object
\* without __bool__/__len__ (an AttributeFilter) are truthy.
Truthy(x) ==
  CASE x.t = "NoneType" -> FALSE
    [] x.t \in {"bool", "int", "float"} -> x.v # 0
    [] OTHER -> TRUE

\* The outcome of evaluating an expression: a value, or a raised exception.
Ret(x) == [exc |-> "none", val |-> x]
Raise(e) == [exc |-> e, val |-> None]

Numeric(x) == x.t \in {"bool", "int", "float"}
\* x >= y and x <= y are defined between numbers and between dates.
Orderable(x, y) == (Numeric(x) /\ Numeric(y)) \/ (x.t = "date" /\ y.t = "date")

\* operator.eq / operator.ge / operator.le
ApplyOp(op, x, y) ==
  CASE op = "eq" -> Ret(PyBool(IF Numeric(x) /\ Numeric(y) THEN x.v = y.v ELSE x = y))
    [] op = "ge" -> IF Orderable(x, y) THEN Ret(PyBool(x.v >= y.v)) ELSE Raise("TypeError")
    [] op = "le" -> IF Orderable(x, y) THEN Ret(PyBool(x.v <= y.v)) ELSE Raise("TypeError")

\* ------------------------------------------------------------------ records
TimesOfDay == {"00:00", "12:00"}
Days == 1..MaxDay
Nums == 0..MaxNum
Quantities == 0..(MaxNum + 1)

\* row["diameter"] of neos.csv: empty, or the decimal text of a number.
DiameterFields == {""} \cup {ToString(k) : k \in Quantities}
PhaFields == {"", "N", "Y"}

\* float(s)
ParseFloat(s) == CHOOSE k \in Quantities : ToString(k) = s

\* load_neos, one row: the diameter and pha conversions.
load_neos_row(row) ==
  [diameter |-> IF row.diameter # "" THEN PyFloat(ParseFloat(row.diameter)) ELSE None,
   hazardous |-> IF row.pha \in {"", "N"} THEN FALSE ELSE TRUE]

\* NearEarthObject(diameter=..., hazardous=...): keeps what the loader passes.
NearEarthObject(fields) ==
  [diameter |-> fields.diameter, hazardous |-> PyBool(fields.hazardous)]

Neos ==
  {NearEarthObject(load_neos_row(row)) : row \in [diameter : DiameterFields, pha : PhaFields]}

\* CloseApproach: time is a datetime (calendar date and time of day).
CloseApproach(d, tod, dist, vel, neo) ==
  [time |-> [date |-> d, tod |-> tod], distance |-> PyFloat(dist),
   velocity |-> PyFloat(vel), neo |-> neo]

Approaches ==
  {CloseApproach(d, tod, dist, vel, neo) :
     d \in Days, tod \in TimesOfDay, dist \in Quantities, vel \in Quantities, neo \in Neos}

NoApproach == [time |-> [date |-> 0, tod |-> ""], distance |-> None,
               velocity |-> None, neo |-> [diameter |-> None, hazardous |-> None]]

\* ------------------------------------------------------------------ filters
\* AttributeFilter.__init__ (and the subclasses that inherit it).
NewFilter(cls, op, value) == [t |-> cls, op |-> op, value |-> value]

\* A slip: the datetime itself, not its date.
DateOf_whole_datetime(time) == [t |-> "datetime", v |-> time.date, tod |-> time.tod]

\* datetime.date()
DateOf(time) == PyDate(time.date)

\* A slip: a base get that returns instead of raising.
Get_base_returns(cls, approach) ==
  CASE cls = "TimeFilter" -> Ret(DateOf(approach.time))
    [] cls = "DistanceFilter" -> Ret(approach.distance)
    [] cls = "VelocityFilter" -> Ret(approach.velocity)
    [] cls = "HazardousFilter" -> Ret(approach.neo.hazardous)
    [] cls = "DiameterFilter" -> Ret(approach.neo.diameter)
    [] OTHER -> Ret(None)

\* The get classmethod of each class.
Get(cls, approach) ==
  CASE cls = "TimeFilter" -> Ret(DateOf(approach.time))
    [] cls = "DistanceFilter" -> Ret(approach.distance)
    [] cls = "VelocityFilter" -> Ret(approach.velocity)
    [] cls = "HazardousFilter" -> Ret(approach.neo.hazardous)
    [] cls = "DiameterFilter" -> Ret(approach.neo.diameter)
    [] OTHER -> Raise("UnsupportedCriterionError")

\* A slip: the operands the other way round.
Call_reversed(f, approach) ==
  LET g == Get(f.t, approach)
  IN  IF g.exc # "none" THEN g ELSE ApplyOp(f.op, f.value, g.val)

\* A slip: a failed comparison counted as no match.
Call_swallows(f, approach) ==
  LET g == Get(f.t, approach)
      r == IF g.exc # "none" THEN g ELSE ApplyOp(f.op, g.val, f.value)
  IN  IF r.exc = "TypeError" THEN Ret(PyBool(FALSE)) ELSE r

\* AttributeFilter.__call__: self.operator(self.get(approach), self.value)
Call(f, approach) ==
  LET g == Get(f.t, approach)
  IN  IF g.exc # "none" THEN g ELSE ApplyOp(f.op, g.val, f.value)

CriteriaNames ==
  <<"date", "start_date", "end_date", "distance_min", "distance_max",
    "velocity_min", "velocity_max", "diameter_min", "diameter_max", "hazardous">>

\* create_filters: the ten optional predicates, in the order of filter_arr.
date_filter_f(c) ==
  IF Truthy(c.date) THEN NewFilter("TimeFilter", "eq", c.date) ELSE None
date_start_filter_f(c) ==
  IF Truthy(c.start_date) THEN NewFilter("TimeFilter", "ge", c.start_date) ELSE None
date_end_filter_f(c) ==
  IF Truthy(c.end_date) THEN NewFilter("TimeFilter", "le", c.end_date) ELSE None
distance_min_filter_f(c) ==
  IF Truthy(c.distance_min) THEN NewFilter("DistanceFilter", "ge", c.distance_min) ELSE None
distance_max_filter_f(c) ==
  IF Truthy(c.distance_max) THEN NewFilter("DistanceFilter", "le", c.distance_max) ELSE None
velocity_min_filter_f(c) ==
  IF Truthy(c.velocity_min) THEN NewFilter("VelocityFilter", "ge", c.velocity_min) ELSE None
velocity_max_filter_f(c) ==
  IF Truthy(c.velocity_max) THEN NewFilter("VelocityFilter", "le", c.velocity_max) ELSE None
diameter_min_filter_f(c) ==
  IF Truthy(c.diameter_min) THEN NewFilter("DiameterFilter", "ge", c.diameter_min) ELSE None
diameter_max_filter_f(c) ==
  IF Truthy(c.diameter_max) THEN NewFilter("DiameterFilter", "le", c.diameter_max) ELSE None

\* A slip: the truthiness test of the other nine criteria, used here too.
hazardous_filter_truthy(c) ==
  IF Truthy(c.hazardous) THEN NewFilter("HazardousFilter", "eq", c.hazardous) ELSE None

hazardous_filter_f(c) ==
  IF c.hazardous # None THEN NewFilter("HazardousFilter", "eq", c.hazardous) ELSE None

\* A slip: two entries of the array in the wrong order.
filter_arr_swapped(c) ==
  <<date_filter_f(c), date_start_filter_f(c), date_end_filter_f(c),
    distance_max_filter_f(c), distance_min_filter_f(c),
    velocity_min_filter_f(c), velocity_max_filter_f(c),
    diameter_min_filter_f(c), diameter_max_filter_f(c), hazardous_filter_f(c)>>

filter_arr(c) ==
  <<date_filter_f(c), date_start_filter_f(c), date_end_filter_f(c),
    distance_min_filter_f(c), distance_max_filter_f(c),
    velocity_min_filter_f(c), velocity_max_filter_f(c),
    diameter_min_filter_f(c), diameter_max_filter_f(c), hazardous_filter_f(c)>>

\* return [i for i in filter_arr if i]
create_filters(c) == SelectSeq(filter_arr(c), Truthy)

\* The values a caller can pass for each criterion.
DateArgs == {None} \cup {PyDate(d) : d \in Days}
NumArgs == {None} \cup {PyFloat(k) : k \in Nums}
HazardousArgs == {None, PyBool(TRUE), PyBool(FALSE)}

AllCriteria ==
  [date : DateArgs, start_date : DateArgs, end_date : DateArgs,
   distance_min : NumArgs, distance_max : NumArgs,
   velocity_min : NumArgs, velocity_max : NumArgs,
   diameter_min : NumArgs, diameter_max : NumArgs, hazardous : HazardousArgs]

NoCriteria ==
  [date |-> None, start_date |-> None, end_date |-> None,
   distance_min |-> None, distance_max |-> None,
   velocity_min |-> None, velocity_max |-> None,
   diameter_min |-> None, diameter_max |-> None, hazardous |-> None]

\* The criteria that are not None.
Specified(c) == {i \in 1..Len(CriteriaNames) : c[CriteriaNames[i]] # None}

\* Criteria with at most MaxCriteria of the ten specified.
FewCriteria == {c \in AllCriteria : Cardinality(Specified(c)) <= MaxCriteria}

\* Criteria with at most one of the ten specified: a stage of a composed
\* query (two stages give every pair of criteria, each with every value).
SingleCriteria == {c \in AllCriteria : Cardinality(Specified(c)) <= 1}

\* --------------------------------------------------------------- the query
\* NEODatabase.query: all(f(approach) for f in filters), left to right,
\* stopping at the first falsy result; an exception leaves the generator.
RECURSIVE AllMatch(_, _)
AllMatch(fs, approach) ==
  IF fs = <<>> THEN Ret(PyBool(TRUE))
  ELSE LET r == Call(Head(fs), approach)
       IN  IF r.exc # "none" THEN r
           ELSE IF ~Truthy(r.val) THEN Ret(PyBool(FALSE))
           ELSE AllMatch(Tail(fs), approach)

\* What one record does to the generator: it is yielded, skipped, or the
\* evaluation raises.
Verdict(fs, approach) ==
  LET r == AllMatch(fs, approach)
  IN  IF r.exc # "none" THEN "raised"
      ELSE IF Truthy(r.val) THEN "yielded" ELSE "skipped"

\* query(query(S, P1), P2) on one record of S: the second generator sees
\* the record only when the first one yields it.
ChainMatch(fs1, fs2, approach) ==
  LET r == AllMatch(fs1, approach)
  IN  IF r.exc # "none" \/ ~Truthy(r.val) THEN r ELSE AllMatch(fs2, approach)

\* next() of the generator over a stored dataset, from position p: the
\* position it stops at and whether it yielded, ran out, or raised.
RECURSIVE GenNext(_, _, _)
GenNext(src, fs, p) ==
  IF p >= Len(src) THEN [pos |-> p, kind |-> "stop", exc |-> "none"]
  ELSE LET r == AllMatch(fs, src[p + 1])
       IN  IF r.exc # "none" THEN [pos |-> p + 1, kind |-> "raise", exc |-> r.exc]
           ELSE IF Truthy(r.val) THEN [pos |-> p + 1, kind |-> "yield", exc |-> "none"]
           ELSE GenNext(src, fs, p + 1)

\* ------------------------------------------------------------------- limit
\* list(itertools.islice(iterator, 0, k)): values are named by the position
\* of the record in the dataset (object identity).
RECURSIVE TakeList(_, _, _, _, _)
TakeList(src, fs, p, k, acc) ==
  IF k = 0 THEN [pos |-> p, buf |-> acc, exc |-> "none"]
  ELSE LET g == GenNext(src, fs, p)
       IN  CASE g.kind = "yield" -> TakeList(src, fs, g.pos, k - 1, Append(acc, g.pos))
             [] g.kind = "stop" -> [pos |-> g.pos, buf |-> acc, exc |-> "none"]
             [] g.kind = "raise" -> [pos |-> g.pos, buf |-> <<>>, exc |-> g.exc]

\* A slip: the slice one short.
limit_one_short(src, fs, p, nn) ==
  IF ~Truthy(nn) THEN [kind |-> "iterator", pos |-> p, buf |-> <<>>, exc |-> "none"]
  ELSE IF nn.v < 0 THEN [kind |-> "raised", pos |-> p, buf |-> <<>>, exc |-> "ValueError"]
  ELSE LET r == TakeList(src, fs, p, nn.v - 1, <<>>)
       IN  [kind |-> IF r.exc = "none" THEN "list" ELSE "raised",
            pos |-> r.pos, buf |-> r.buf, exc |-> r.exc]

\* A variant: every n that is not positive means no limit.
limit_nonpositive_unlimited(src, fs, p, nn) ==
  IF ~Truthy(nn) \/ nn.v < 0
    THEN [kind |-> "iterator", pos |-> p, buf |-> <<>>, exc |-> "none"]
  ELSE LET r == TakeList(src, fs, p, nn.v, <<>>)
       IN  [kind |-> IF r.exc = "none" THEN "list" ELSE "raised",
            pos |-> r.pos, buf |-> r.buf, exc |-> r.exc]

\* limit(iterator, n); the iterator is the generator (src, fs) at position p.
limit(src, fs, p, nn) ==
  IF ~Truthy(nn) THEN [kind |-> "iterator", pos |-> p, buf |-> <<>>, exc |-> "none"]
  ELSE IF nn.v < 0 THEN [kind |-> "raised", pos |-> p, buf |-> <<>>, exc |-> "ValueError"]
  ELSE LET r == TakeList(src, fs, p, nn.v, <<>>)
       IN  [kind |-> IF r.exc = "none" THEN "list" ELSE "raised",
            pos |-> r.pos, buf |-> r.buf, exc |-> r.exc]

LimitArgs == {None} \cup {PyInt(k) : k \in -1..MaxLimit}

\* The datasets of the limit specification: records that differ in their NEO.
LimitNeos == {neo \in Neos : neo.diameter \in {None, PyFloat(MaxNum)}}
LimitApproaches == {CloseApproach(1, "00:00", 1, 1, neo) : neo \in LimitNeos}
RECURSIVE SeqsUpTo(_, _)
SeqsUpTo(S, k) ==
  IF k = 0 THEN {<<>>}
  ELSE LET shorter == SeqsUpTo(S, k - 1)
       IN  shorter \cup {Append(q, x) : q \in {r \in shorter : Len(r) = k - 1}, x \in S}
LimitSources == SeqsUpTo(LimitApproaches, MaxLen)
LimitCriteria ==
  {NoCriteria, [NoCriteria EXCEPT !.hazardous = PyBool(TRUE)],
   [NoCriteria EXCEPT !.diameter_min = PyFloat(MaxNum)]}

\* ------------------------------------------------------------------- state
VARIABLES
  pc,        \* where the caller is
  criteria,  \* the arguments of create_filters
  filters,   \* what create_filters returned
  filters2,  \* a second predicate set (composed queries)
  cur,       \* the record the generator read last
  chain,     \* what the chained generators did with cur
  exc,       \* the exception that reached the caller
  source,    \* the stored dataset
  pos,       \* how many records of source the generator has read
  n,         \* the argument of limit
  lim,       \* what limit returned: the iterator itself, or a list
  buf,       \* the list limit built
  taken      \* the values the caller has received

vars == <<pc, criteria, filters, filters2, cur, chain, exc, source, pos, n, lim, buf, taken>>

pipeVars == <<source, pos, n, lim, buf, taken>>

InitWith(sources) ==
  /\ pc = "start"
  /\ criteria = NoCriteria
  /\ filters = <<>>
  /\ filters2 = <<>>
  /\ cur = NoApproach
  /\ chain = "none"
  /\ exc = "none"
  /\ source \in sources
  /\ pos = 0
  /\ n = None
  /\ lim = "none"
  /\ buf = <<>>
  /\ taken = <<>>

Init == InitWith({<<>>})

\* main: filters = create_filters(**args)
CreateFilters(argSet) ==
  /\ pc = "start"
  /\ \E args \in argSet :
       /\ criteria' = args
       /\ filters' = create_filters(args)
  /\ pc' = "built"
  /\ UNCHANGED <<filters2, cur, chain, exc, pipeVars>>

\* A predicate of the base class, constructed directly.
NewAttributeFilter ==
  /\ pc = "start"
  /\ \E op \in {"eq", "ge", "le"}, value \in NumArgs \cup DateArgs :
       filters' = <<NewFilter("AttributeFilter", op, value)>>
  /\ pc' = "built"
  /\ UNCHANGED <<criteria, filters2, cur, chain, exc, pipeVars>>

\* database.query(filters): the generator is created; nothing is read yet.
Query ==
  /\ pc = "built"
  /\ pc' = "ready"
  /\ UNCHANGED <<criteria, filters, filters2, cur, chain, exc, pipeVars>>

\* The generator reads the next record of the dataset, whatever it is, and
\* evaluates the predicates on it.
QueryNext ==
  /\ pc = "ready"
  /\ \E approach \in Approaches :
       /\ cur' = approach
       /\ pc' = Verdict(filters, approach)
       /\ exc' = AllMatch(filters, approach).exc
  /\ UNCHANGED <<criteria, filters, filters2, chain, pipeVars>>

\* The loop goes on to the next record.
Resume ==
  /\ pc \in {"yielded", "skipped"}
  /\ pc' = "ready"
  /\ cur' = NoApproach
  /\ chain' = "none"
  /\ UNCHANGED <<criteria, filters, filters2, exc, pipeVars>>

\* The dataset has no more records.
Exhaust ==
  /\ pc = "ready"
  /\ pc' = "done"
  /\ UNCHANGED <<criteria, filters, filters2, cur, chain, exc, pipeVars>>

NextBuild == CreateFilters(AllCriteria)

SpecBuild == Init /\ [][NextBuild]_vars

NextQuery ==
  \/ CreateFilters(FewCriteria)
  \/ NewAttributeFilter
  \/ Query
  \/ QueryNext
  \/ Resume
  \/ Exhaust

SpecQuery == Init /\ [][NextQuery]_vars

\* ------------------------------------------------------- composed queries
\* A second call of create_filters, for a second query stage.
CreateFilters2 ==
  /\ pc = "built"
  /\ chain = "none"
  /\ \E args \in SingleCriteria : filters2' = create_filters(args)
  /\ chain' = "built"
  /\ UNCHANGED <<pc, criteria, filters, cur, exc, pipeVars>>

\* query(S, P1 + P2) and query(query(S, P1), P2) are created.
QueryBoth ==
  /\ pc = "built"
  /\ chain = "built"
  /\ pc' = "ready"
  /\ chain' = "ready"
  /\ UNCHANGED <<criteria, filters, filters2, cur, exc, pipeVars>>

\* Both pipelines read the next record of S, whatever it is: pc is what the
\* single query over P1 + P2 does with it, chain what the chained ones do.
ComposeNext ==
  /\ pc = "ready"
  /\ chain = "ready"
  /\ \E approach \in Approaches :
       /\ cur' = approach
       /\ pc' = Verdict(filters \o filters2, approach)
       /\ exc' = AllMatch(filters \o filters2, approach).exc
       /\ chain' = LET r == ChainMatch(filters, filters2, approach)
                   IN  IF r.exc # "none" THEN r.exc
                       ELSE IF Truthy(r.val) THEN "yielded" ELSE "skipped"
  /\ UNCHANGED <<criteria, filters, filters2, pipeVars>>

\* Both loops go on to the next record.
ResumeBoth ==
  /\ pc \in {"yielded", "skipped"}
  /\ chain = pc
  /\ pc' = "ready"
  /\ chain' = "ready"
  /\ cur' = NoApproach
  /\ UNCHANGED <<criteria, filters, filters2, exc, pipeVars>>

NextCompose ==
  \/ CreateFilters(SingleCriteria)
  \/ CreateFilters2
  \/ QueryBoth
  \/ ComposeNext
  \/ ResumeBoth

SpecCompose == Init /\ [][NextCompose]_vars

\* ------------------------------------------------------ the limited query
\* main: results = limit(database.query(filters), n)
Limit ==
  /\ pc = "ready"
  /\ \E nn \in LimitArgs :
       LET r == limit(source, filters, pos, nn)
       IN  /\ n' = nn
           /\ lim' = r.kind
           /\ pos' = r.pos
           /\ buf' = r.buf
           /\ exc' = r.exc
           /\ pc' = IF r.kind = "raised" THEN "raised" ELSE "limited"
  /\ UNCHANGED <<criteria, filters, filters2, cur, chain, source, taken>>

\* The caller asks for the next value; limit returned the generator itself.
NextFromIterator ==
  /\ pc = "limited"
  /\ lim = "iterator"
  /\ LET g == GenNext(source, filters, pos)
     IN  /\ pos' = g.pos
         /\ exc' = g.exc
         /\ taken' = IF g.kind = "yield" THEN Append(taken, g.pos) ELSE taken
         /\ pc' = CASE g.kind = "yield" -> "limited"
                    [] g.kind = "stop" -> "done"
                    [] g.kind = "raise" -> "raised"
  /\ UNCHANGED <<criteria, filters, filters2, cur, chain, source, n, lim, buf>>

\* The caller asks for the next value; limit returned a list.
NextFromList ==
  /\ pc = "limited"
  /\ lim = "list"
  /\ IF Len(taken) < Len(buf)
       THEN /\ taken' = Append(taken, buf[Len(taken) + 1])
            /\ pc' = "limited"
       ELSE /\ taken' = taken
            /\ pc' = "done"
  /\ UNCHANGED <<criteria, filters, filters2, cur, chain, exc, source, pos, n, lim, buf>>

\* The caller stops asking.
Stop ==
  /\ pc = "limited"
  /\ pc' = "stopped"
  /\ UNCHANGED <<criteria, filters, filters2, cur, chain, exc, pipeVars>>

InitLimit == InitWith(LimitSources)

NextLimit ==
  \/ CreateFilters(LimitCriteria)
  \/ Query
  \/ Limit
  \/ NextFromIterator
  \/ NextFromList
  \/ Stop

SpecLimit == InitLimit /\ [][NextLimit]_vars

\* ------------------------------------------------------------------ claims
\* The slots of the documented order, with the class and comparator of each.
SlotClass ==
  <<"TimeFilter", "TimeFilter", "TimeFilter", "DistanceFilter", "DistanceFilter",
    "VelocityFilter", "VelocityFilter", "DiameterFilter", "DiameterFilter",
    "HazardousFilter">>
SlotOp == <<"eq", "ge", "le", "ge", "le", "ge", "le", "ge", "le", "eq">>
Slots == 1..Len(CriteriaNames)
SlotsOf(f) == {i \in Slots : SlotClass[i] = f.t /\ SlotOp[i] = f.op}

\* The generator has just evaluated the predicates on cur.
Evaluated == pc \in {"yielded", "skipped", "raised"}
True == Ret(PyBool(TRUE))
Concrete ==
  {"TimeFilter", "DistanceFilter", "VelocityFilter", "HazardousFilter", "DiameterFilter"}

\* What a predicate compares, read off the record: the attribute as a plain
\* number (a date ordinal, a quantity, 0/1 for the flag).
AttrKnown(f, approach) ==
  /\ f.t \in Concrete
  /\ f.t = "DiameterFilter" => approach.neo.diameter # None
AttrValue(f, approach) ==
  CASE f.t = "TimeFilter" -> approach.time.date
    [] f.t = "DistanceFilter" -> approach.distance.v
    [] f.t = "VelocityFilter" -> approach.velocity.v
    [] f.t = "HazardousFilter" -> approach.neo.hazardous.v
    [] f.t = "DiameterFilter" -> approach.neo.diameter.v
ReturnsTrue(f, approach) ==
  /\ AttrKnown(f, approach)
  /\ CASE f.op = "eq" -> AttrValue(f, approach) = f.value.v
       [] f.op = "ge" -> AttrValue(f, approach) >= f.value.v
       [] f.op = "le" -> AttrValue(f, approach) <= f.value.v

\* C1: create_filters returns exactly one predicate per criterion that is
\* not None (a threshold of 0 included) and none for a criterion that is
\* None, so its length is the number of specified criteria.
C1_OnePredicatePerSpecified ==
  pc = "built" =>
    /\ Len(filters) = Cardinality(Specified(criteria))
    /\ \A i \in Slots :
         Cardinality({j \in DOMAIN filters : i \in SlotsOf(filters[j])})
           = IF i \in Specified(criteria) THEN 1 ELSE 0

\* C9: the predicates create_filters returns are in the documented slot
\* order, whichever criteria are set, and each has the class and comparator
\* of its slot and the criterion's value as reference value.
C9_FixedOrder ==
  pc = "built" =>
    LET slot == [j \in DOMAIN filters |-> SlotsOf(filters[j])]
    IN  /\ \A j \in DOMAIN filters :
             \E i \in slot[j] :
               /\ slot[j] = {i}
               /\ filters[j] = [t |-> SlotClass[i], op |-> SlotOp[i],
                                value |-> criteria[CriteriaNames[i]]]
        /\ \A j \in 1..(Len(filters) - 1) :
             \A a \in slot[j], b \in slot[j + 1] : a < b

C9_Witness == pc = "built" /\ Len(filters) = Len(CriteriaNames)

\* C2: hazardous=None gives no hazardous predicate; hazardous=True gives one
\* that passes exactly the records of hazardous NEOs; hazardous=False gives
\* one that passes exactly the records of non-hazardous NEOs.
C2_HazardousTriState ==
  LET hz == {j \in DOMAIN filters : filters[j].t = "HazardousFilter"}
  IN  /\ criteria.hazardous = None => hz = {}
      /\ criteria.hazardous # None =>
           /\ Cardinality(hz) = 1
           /\ \A j \in hz : filters[j].op = "eq" /\ filters[j].value = criteria.hazardous
           /\ Evaluated =>
                \A j \in hz :
                  Call(filters[j], cur) = Ret(PyBool(cur.neo.hazardous = criteria.hazardous))
           /\ pc = "yielded" => cur.neo.hazardous = criteria.hazardous
           /\ (Evaluated /\ Specified(criteria) = {Len(CriteriaNames)}) =>
                /\ pc # "raised"
                /\ pc = "yielded" <=> cur.neo.hazardous = criteria.hazardous

C2_Witness ==
  /\ pc = "skipped"
  /\ criteria.hazardous = PyBool(FALSE)
  /\ cur.neo.hazardous = PyBool(TRUE)

\* C6: calling a predicate of the base class on any record raises
\* UnsupportedCriterionError, which reaches the caller of the query; a
\* predicate of one of the five subclasses never raises it.
C6_BaseGetRaises ==
  Evaluated =>
    /\ (filters # <<>> /\ filters[1].t = "AttributeFilter") =>
         /\ Call(filters[1], cur) = Raise("UnsupportedCriterionError")
         /\ pc = "raised"
         /\ exc = "UnsupportedCriterionError"
    /\ \A j \in DOMAIN filters :
         filters[j].t \in Concrete =>
           Call(filters[j], cur).exc # "UnsupportedCriterionError"
    /\ (\A j \in DOMAIN filters : filters[j].t \in Concrete) =>
         exc # "UnsupportedCriterionError"

C6_Witness ==
  /\ pc = "raised"
  /\ exc = "UnsupportedCriterionError"
  /\ filters[1].t = "AttributeFilter"
  /\ cur \in Approaches

\* C8: with only date criteria set, a record is kept exactly when the date
\* of its approach time equals date, is on or after start_date and is on or
\* before end_date, whatever its time of day.
C8_DateFilters ==
  (Evaluated /\ Specified(criteria) # {} /\ Specified(criteria) \subseteq {1, 2, 3}) =>
    /\ pc # "raised"
    /\ pc = "yielded" <=>
         /\ criteria.date # None => cur.time.date = criteria.date.v
         /\ criteria.start_date # None => cur.time.date >= criteria.start_date.v
         /\ criteria.end_date # None => cur.time.date <= criteria.end_date.v

C8_Witness ==
  /\ pc = "yielded"
  /\ criteria.date # None
  /\ cur.time.date = criteria.date.v
  /\ cur.time.tod = "12:00"

\* C10: a diameter predicate that is evaluated on a record whose NEO has no
\* diameter (None) raises TypeError; the error reaches the caller, the
\* record is not produced and the query reads nothing after it.
C10_Raises ==
  Evaluated =>
    \A j \in DOMAIN filters :
      ( /\ filters[j].t = "DiameterFilter"
        /\ cur.neo.diameter = None
        /\ \A i \in 1..(j - 1) : Call(filters[i], cur) = True ) =>
        /\ Call(filters[j], cur) = Raise("TypeError")
        /\ pc = "raised"
        /\ exc = "TypeError"

\* C10, with what follows the error: C10_Raises in every state, and no step
\* of the query after it has raised.
C10_UnknownDiameterRaises == []C10_Raises /\ [][pc # "raised"]_vars

C10_Witness ==
  /\ pc = "raised"
  /\ exc = "TypeError"
  /\ filters[1].t = "DiameterFilter"
  /\ cur.neo.diameter = None

\* C7: on every record, the query over P1 followed by P2 and the query over
\* P2 fed by the query over P1 do the same (produce it, drop it, or raise the
\* same error), and the record is produced exactly when every predicate of
\* both sets is true of it.
C7_Composition ==
  Evaluated =>
    /\ chain = IF pc = "raised" THEN exc ELSE pc
    /\ pc = "yielded" <=>
         \A j \in DOMAIN (filters \o filters2) :
           ReturnsTrue((filters \o filters2)[j], cur)

C7_Witness ==
  /\ pc = "yielded"
  /\ chain = "yielded"
  /\ filters # <<>>
  /\ filters2 # <<>>
  /\ filters2[1].t # filters[1].t

\* The filtered sequence S that limit is given, as the positions of the
\* records of the dataset that every predicate accepts, in dataset order.
Accepted(i) == Truthy(AllMatch(filters, source[i]).val)
Filtered == SelectSeq([i \in 1..Len(source) |-> i], Accepted)
\* S is a finite sequence: no record makes a predicate raise.
ErrFree == \A i \in DOMAIN source : AllMatch(filters, source[i]).exc = "none"
Min(a, b) == IF a <= b THEN a ELSE b
Positive(x) == x.t = "int" /\ x.v > 0
Negative(x) == x.t = "int" /\ x.v < 0

\* C3: limit(S, N) with N > 0 gives the first min(N, |S|) elements of S in
\* order; with N = 0 or N = None it gives all of S, in order.
C3_Limit ==
  (ErrFree /\ lim # "none") =>
    /\ Positive(n) =>
         /\ lim = "list"
         /\ buf = SubSeq(Filtered, 1, Min(n.v, Len(Filtered)))
         /\ taken = SubSeq(buf, 1, Len(taken))
         /\ pc = "done" => taken = buf
    /\ (n = None \/ n = PyInt(0)) =>
         /\ lim = "iterator"
         /\ taken = SubSeq(Filtered, 1, Len(taken))
         /\ pc = "done" => taken = Filtered

C3_Witness ==
  /\ pc = "done"
  /\ n = PyInt(2)
  /\ Len(Filtered) > 2
  /\ taken = SubSeq(Filtered, 1, 2)
  /\ ErrFree

\* C4, as claimed: limit(S, N) with N < 0 returns S unchanged and raises
\* nothing.
C4_NegativeUnlimited ==
  Negative(n) => (lim = "iterator" /\ exc = "none")

\* C4, amended: limit(S, N) with N < 0 raises ValueError; nothing is
\* returned and nothing has been read from S.
C4_NegativeRaises ==
  Negative(n) =>
    /\ pc = "raised"
    /\ exc = "ValueError"
    /\ lim = "raised"
    /\ pos = 0
    /\ buf = <<>>
    /\ taken = <<>>

C4_Witness ==
  /\ Negative(n)
  /\ exc = "ValueError"
  /\ Filtered # <<>>

\* C5: a caller that stops after k < N values of limit(query, N) has made
\* the query read no record beyond the one that gave the k-th value.
C5_NoReadAhead ==
  (pc = "stopped" /\ Positive(n) /\ Len(taken) < n.v) =>
    pos <= (IF taken = <<>> THEN 0 ELSE taken[Len(taken)])
====
